---- MODULE Spec2Model ----
(***************************************************************************)
(* Octahedral direction codec of XRENGINE's python prototypes:             *)
(*   src/oct_test.py       encode, decode and the round-trip loop          *)
(*   src/simulate_octa.py  a second copy of decode feeding sample_cubemap  *)
(*                                                                         *)
(* Numbers.  The code computes with Python floats (IEEE-754 doubles), with *)
(* math.sqrt, and with the ints it is called with.  A number of the model  *)
(* is a record [k, s, m, e]: k is "fin", "inf" or "nan" for a float and    *)
(* "int" for an int, s is the sign, 1 or -1, and a finite float is         *)
(*     s * m * 2^e                                                         *)
(* for a natural number m, the mantissa, held as the sequence of its       *)
(* digits in base 2^15 (lowest first), since TLC's integers have 32 bits.  *)
(* The form is that of the double: m has exactly 53 bits                   *)
(* and -1074 <= e <= 971 (a normal number), or fewer bits and e = -1074 (a *)
(* subnormal one), or m = << >> and e = 0 (a zero, of either sign), so     *)
(* that equal records are the same double.  *, +, -, / and math.sqrt       *)
(* compute the exact result and round it to the nearest double, ties to    *)
(* even, with overflow to inf and gradual underflow: bit for bit what the  *)
(* code computes.  An int is s * m with e = 0 and a magnitude m of any     *)
(* size; *, + and - of two ints are exact ints, and an int that meets a    *)
(* float, or math.sqrt, is converted to the nearest double first, which    *)
(* raises OverflowError beyond the largest double.  An exception is a      *)
(* value of its own, which every later operation hands on.                 *)
(***************************************************************************)
EXTENDS Integers, Sequences, FiniteSets

VARIABLES pc, dir, uv, dec, sdec, col, uv2

vars == <<pc, dir, uv, dec, sdec, col, uv2>>

\* Largest component magnitude of the integer input directions.
MaxC == 2
\* The UV inputs are the points i / 2^GridBits of the unit square and the
\* ring of such points one step outside it.
GridBits == 3
\* 1e-5 is 1 / EpsDen.
EpsDen == 100000

------------------------------------------------------------------------------
(* Natural numbers of any size: the sequence of their digits in base 2^15,   *)
(* lowest first, without leading zeros; zero is << >>.  The operations are   *)
(* functions of the digit sequences.                                         *)

\* Bits of a digit; digit products stay below 2^31.
LimbBits == 15
Base == 32768
Digits == Seq(Nat)

Pow2(k) == 2^k
\* The number of bits of a digit.
IntBitLen(i) == CHOOSE n \in 0..LimbBits : i < 2^n /\ (n = 0 \/ i >= 2^(n - 1))

AbsInt(a) == IF a < 0 THEN -a ELSE a
SignInt(a) == IF a < 0 THEN -1 ELSE 1

Limb(a, i) == IF i <= Len(a) THEN a[i] ELSE 0

\* The place of the highest digit that is not zero, 0 when there is none.
BTop(a) ==
    IF \A i \in 1..Len(a) : a[i] = 0 THEN 0
    ELSE CHOOSE i \in 1..Len(a) : a[i] # 0 /\ \A j \in (i + 1)..Len(a) : a[j] = 0
BTrim[a \in Digits] == SubSeq(a, 1, BTop(a))

\* An integer below 2^31 has three digits.
BFromInt[i \in Nat] == BTrim[<<i % Base, (i \div Base) % Base, i \div (Base * Base)>>]

\* -1, 0 or 1 as a < b, a = b or a > b
BCmpAt(a, b, i) == IF a[i] > b[i] THEN 1 ELSE -1
BCmp[a \in Digits, b \in Digits] ==
    IF Len(a) # Len(b) THEN (IF Len(a) > Len(b) THEN 1 ELSE -1)
    ELSE IF a = b THEN 0
    ELSE BCmpAt(a, b, CHOOSE i \in 1..Len(a) :
                          a[i] # b[i] /\ \A j \in (i + 1)..Len(a) : a[j] = b[j])

\* The carry into place i of a + b: a place below overflows, and the places
\* between hand the carry on.
BCarry(a, b, i) ==
    IF \E j \in 1..(i - 1) :
           /\ Limb(a, j) + Limb(b, j) >= Base
           /\ \A k \in (j + 1)..(i - 1) : Limb(a, k) + Limb(b, k) = Base - 1
    THEN 1 ELSE 0
BAddTo[a \in Digits, b \in Digits, n \in Nat] ==
    BTrim[SubSeq([i \in 1..n |-> (Limb(a, i) + Limb(b, i) + BCarry(a, b, i)) % Base], 1, n)]
BAdd[a \in Digits, b \in Digits] ==
    BAddTo[a, b, (IF Len(a) > Len(b) THEN Len(a) ELSE Len(b)) + 1]

\* The borrow from place i of a - b.
BBorrow(a, b, i) ==
    IF \E j \in 1..(i - 1) :
           /\ a[j] < Limb(b, j)
           /\ \A k \in (j + 1)..(i - 1) : a[k] = Limb(b, k)
    THEN 1 ELSE 0
\* a - b for a >= b
BSub[a \in Digits, b \in Digits] ==
    BTrim[SubSeq([i \in 1..Len(a) |-> (a[i] - Limb(b, i) - BBorrow(a, b, i)) % Base],
                 1, Len(a))]

\* a * Base^n
BShlLimbs[a \in Digits, n \in Nat] == IF a = <<>> THEN a ELSE [i \in 1..n |-> 0] \o a
\* a * k for a digit k: the low halves of the digit products, and the high
\* halves one place up.
BMulSmall[a \in Digits, k \in Nat] ==
    BAdd[SubSeq([i \in 1..Len(a) |-> (a[i] * k) % Base], 1, Len(a)),
         <<0>> \o SubSeq([i \in 1..Len(a) |-> (a[i] * k) \div Base], 1, Len(a))]
\* a * 2^n
BShl[a \in Digits, n \in Nat] ==
    BShlLimbs[BMulSmall[a, Pow2(n % LimbBits)], n \div LimbBits]

\* a * b: acc is a times the digits of b above place j.
BMulAt[a \in Digits, b \in Digits, j \in Nat, acc \in Digits] ==
    IF j = 0 THEN acc
    ELSE BMulAt[a, b, j - 1, BAdd[BMulSmall[a, b[j]], BShlLimbs[acc, 1]]]
BMul[a \in Digits, b \in Digits] == BMulAt[a, b, Len(b), <<>>]

\* a \div (Base^q 2^r) for r below LimbBits
BShrAt[a \in Digits, q \in Nat, r \in Nat] ==
    BTrim[SubSeq([i \in 1..(Len(a) - q) |->
                     (a[i + q] \div Pow2(r))
                     + (Limb(a, i + q + 1) % Pow2(r)) * Pow2(LimbBits - r)],
                 1, Len(a) - q)]
\* a \div 2^n
BShr[a \in Digits, n \in Nat] ==
    IF n \div LimbBits >= Len(a) THEN <<>>
    ELSE BShrAt[a, n \div LimbBits, n % LimbBits]

BBitLen(a) == IF a = <<>> THEN 0 ELSE LimbBits * (Len(a) - 1) + IntBitLen(a[Len(a)])
\* bit i of a, bit 0 the lowest
BBit(a, i) == (Limb(a, i \div LimbBits + 1) \div Pow2(i % LimbBits)) % 2
\* one of the n lowest bits of a is set: a digit below the one of bit n, or
\* the low bits of that one
BLow(a, n) ==
    \E i \in 1..Len(a) :
        \/ i <= n \div LimbBits /\ a[i] # 0
        \/ i = n \div LimbBits + 1 /\ a[i] % Pow2(n % LimbBits) # 0

\* Long division by a b whose highest digit is Base / 2 or more.
\* The largest digit d with b * d <= r, from a q that is not below it.
QFix[r \in Digits, b \in Digits, q \in Nat] ==
    IF BCmp[BMulSmall[b, q], r] <= 0 THEN q ELSE QFix[r, b, q - 1]
\* The two highest digits of r < b * Base by the highest of b: the digit,
\* or up to 2 more.
QEst(r, b) == (Limb(r, Len(b) + 1) * Base + Limb(r, Len(b))) \div b[Len(b)]
QDigit[r \in Digits, b \in Digits] ==
    QFix[r, b, IF QEst(r, b) > Base - 1 THEN Base - 1 ELSE QEst(r, b)]
\* [q, r] with a = q * b + r and r < b.
QuotRem == [q : Digits, r : Digits]
\* The next digit d of the quotient, after the quotient q with the remainder
\* r1 to divide.
BDivPut[q \in Digits, r1 \in Digits, b \in Digits, d \in Nat] ==
    [q |-> <<d>> \o q, r |-> BSub[r1, BMulSmall[b, d]]]
BDivIn[q \in Digits, r1 \in Digits, b \in Digits] == BDivPut[q, r1, b, QDigit[r1, b]]
\* The digits of a from place i down are still to come; qr is the quotient
\* and the remainder of the higher ones.
BDivAt[a \in Digits, b \in Digits, i \in Nat, qr \in QuotRem] ==
    IF i = 0 THEN qr
    ELSE BDivAt[a, b, i - 1, BDivIn[qr.q, BTrim[<<a[i]>> \o qr.r], b]]
\* The highest Len(b) - 1 digits of a are less than b.
BDivNorm[a \in Digits, b \in Digits] ==
    IF Len(a) < Len(b) THEN [q |-> <<>>, r |-> a]
    ELSE BDivAt[a, b, Len(a) - Len(b) + 1,
                [q |-> <<>>, r |-> BTrim[SubSeq(a, Len(a) - Len(b) + 2, Len(a))]]]
\* Long division for b > 0.  Both are taken t bits up, which fills the
\* highest digit of b.
BDivDown[qr \in QuotRem, t \in Nat] == [q |-> BTrim[qr.q], r |-> BShr[qr.r, t]]
BDivUp[a \in Digits, b \in Digits, t \in Nat] == BDivDown[BDivNorm[BShl[a, t], BShl[b, t]], t]
BDivMod[a \in Digits, b \in Digits] == BDivUp[a, b, LimbBits - IntBitLen(b[Len(b)])]

\* Square root by digits: [s, r] with a = s * s + r and r <= 2 s.
RootRem == [s : Digits, r : Digits]
\* (2 x Base + d) d, what a digit d after the root x takes from the remainder
SqTerm[x \in Digits, d \in Nat] == BMulSmall[BTrim[<<d>> \o BMulSmall[x, 2]], d]
\* The largest d with SqTerm[x, d] <= r, from a d that is not below it.
SFix[r \in Digits, x \in Digits, d \in Nat] ==
    IF BCmp[SqTerm[x, d], r] <= 0 THEN d ELSE SFix[r, x, d - 1]
\* The integer square root of v < Base^2, 256 h + l.
ISqrtHigh(v) ==
    CHOOSE h \in 0..127 :
        /\ (256 * h) * (256 * h) <= v
        /\ (h = 127 \/ (256 * (h + 1)) * (256 * (h + 1)) > v)
ISqrtIn[v \in Nat, h \in Nat] ==
    CHOOSE d \in (256 * h)..(256 * h + 255) : d * d <= v /\ (d + 1) * (d + 1) > v
ISqrt[v \in Nat] == ISqrtIn[v, ISqrtHigh(v)]
\* r \div (2 x Base), or the largest digit, is not below the digit.
SEst[q \in Digits] == IF Len(q) > 1 THEN Base - 1 ELSE Limb(q, 1)
SDigit[r \in Digits, x \in Digits] ==
    IF x = <<>> THEN ISqrt[Limb(r, 2) * Base + Limb(r, 1)]
    ELSE SFix[r, x, SEst[BDivMod[SubSeq(r, 2, Len(r)), BMulSmall[x, 2]].q]]
\* The next digit d of the root, after the root x with the remainder r1.
BSqrtPut[x \in Digits, r1 \in Digits, d \in Nat] ==
    [s |-> BTrim[<<d>> \o x], r |-> BSub[r1, SqTerm[x, d]]]
BSqrtIn[x \in Digits, r1 \in Digits] == BSqrtPut[x, r1, SDigit[r1, x]]
\* The pairs of digits of a from pair j down are still to come; sr is the
\* root and the remainder of the higher ones.
BSqrtAt[a \in Digits, j \in Nat, sr \in RootRem] ==
    IF j = 0 THEN sr
    ELSE BSqrtAt[a, j - 1,
                 BSqrtIn[sr.s, BTrim[<<Limb(a, 2 * j - 1), Limb(a, 2 * j)>> \o sr.r]]]
BSqrtRem[a \in Digits] == BSqrtAt[a, (Len(a) + 1) \div 2, [s |-> <<>>, r |-> <<>>]]
------------------------------------------------------------------------------
(* Python numbers: floats and ints.                                          *)

\* Bits of the mantissa of a double.
MantBits == 53
\* The exponent of the last mantissa bit of the subnormals: the smallest
\* positive double is 2^EMin.
EMin == -1074
\* The exponent of the last mantissa bit of the largest finite doubles:
\* the largest is (2^53 - 1) 2^EMaxUlp.
EMaxUlp == 971
\* An addend whose last bit is this many places or more below that of the
\* other is less than a quarter of its unit in the last place: the sum is
\* the other operand.
AbsorbBits == 55

Fin(s, m, e) == [k |-> "fin", s |-> s, m |-> m, e |-> e]
FZero(s) == Fin(s, <<>>, 0)
\* The int s * m, of any size: m is its magnitude, and 0 has no sign.
PyInt(s, m) == [k |-> "int", s |-> IF m = <<>> THEN 1 ELSE s, m |-> m, e |-> 0]
Inf(s) == [k |-> "inf", s |-> s, m |-> <<>>, e |-> 0]
NaN == [k |-> "nan", s |-> 1, m |-> <<>>, e |-> 0]
\* The exception an operation raises, in the place of the value it would
\* have bound: no later statement runs, so every operation on it is it again.
ZeroDivisionError == [k |-> "ZeroDivisionError", s |-> 1, m |-> <<>>, e |-> 0]
ValueError == [k |-> "ValueError", s |-> 1, m |-> <<>>, e |-> 0]
OverflowError == [k |-> "OverflowError", s |-> 1, m |-> <<>>, e |-> 0]

IsNaN(a) == a.k = "nan"
IsInf(a) == a.k = "inf"
IsInt(a) == a.k = "int"
IsErr(a) == a.k \in {"ZeroDivisionError", "ValueError", "OverflowError"}
IsZero(a) == a.k \in {"fin", "int"} /\ a.m = <<>>

\* The double (m + f) 2^e of sign s, where 0 <= f < 1 and inexact says f > 0,
\* for a mantissa m of at most 53 bits: one more bit after rounding up is
\* taken into the exponent, and what lies above the largest double is inf.
Pack(s, m, e) ==
    IF m = <<>> THEN FZero(s)
    ELSE IF BBitLen(m) > MantBits THEN
        (IF e + 1 > EMaxUlp THEN Inf(s) ELSE Fin(s, BShr[m, 1], e + 1))
    ELSE IF e > EMaxUlp THEN Inf(s)
    ELSE Fin(s, m, e)
\* q the bits kept, half the first bit dropped, rest whether anything lies
\* below it: round to nearest, ties to even.
RoundUp(s, q, e, half, rest) ==
    IF half /\ (rest \/ BBit(q, 0) = 1) THEN Pack(s, BAdd[q, <<1>>], e)
    ELSE Pack(s, q, e)
\* sh the number of low bits of m to drop (to add, when negative)
RoundTo(s, m, e, inexact, sh) ==
    IF sh <= 0 THEN Pack(s, BShl[m, -sh], e + sh)
    ELSE RoundUp(s, BShr[m, sh], e + sh, BBit(m, sh - 1) = 1, inexact \/ BLow(m, sh - 1))
\* The exponent of the last mantissa bit of the double nearest to m 2^e.
UlpExp(len, e) == IF e + len - MantBits < EMin THEN EMin ELSE e + len - MantBits
\* An inexact m has two bits or more beyond the 53.
Round(s, m, e, inexact) ==
    IF m = <<>> THEN FZero(s) ELSE RoundTo(s, m, e, inexact, UlpExp(BBitLen(m), e) - e)

\* The float n * 2^e of an integer n.
Flt(n, e) == Round(SignInt(n), BFromInt[AbsInt(n)], e, FALSE)
\* The int n.
Num(i) == PyInt(SignInt(i), BFromInt[AbsInt(i)])
\* The literals 0, 1.0, 2.0 and 0.5.
Zero == Num(0)
One == Flt(1, 0)
Two == Flt(2, 0)
Half == Flt(1, -1)

\* A float result of ints, which raises where a float operation gives inf.
Finite(x) == IF IsInf(x) THEN OverflowError ELSE x
\* The operand of a float operation or of math.sqrt: an int is converted to
\* the nearest double, and one beyond the largest double raises.
IntToFloat(a) == Finite(Round(a.s, a.m, 0, FALSE))
ToFloat(a) == IF IsInt(a) THEN IntToFloat(a) ELSE a

\* -a and abs(a); those of an int are ints.
Neg(a) ==
    IF IsInt(a) THEN PyInt(-a.s, a.m)
    ELSE IF a.k \in {"fin", "inf"} THEN [a EXCEPT !.s = -a.s] ELSE a
Abs(a) == IF a.k \in {"fin", "inf", "int"} THEN [a EXCEPT !.s = 1] ELSE a

\* a * b of floats
MulFloat(a, b) ==
    CASE IsErr(a) -> a
      [] IsErr(b) -> b
      [] IsNaN(a) \/ IsNaN(b) -> NaN
      [] (IsInf(a) /\ IsZero(b)) \/ (IsZero(a) /\ IsInf(b)) -> NaN
      [] IsInf(a) \/ IsInf(b) -> Inf(a.s * b.s)
      [] IsZero(a) \/ IsZero(b) -> FZero(a.s * b.s)
      [] OTHER -> Round(a.s * b.s, BMul[a.m, b.m], a.e + b.e, FALSE)
\* a * b: the product of two ints is the exact int; an int with a float is
\* converted first.
Mul(a, b) ==
    CASE IsErr(a) -> a
      [] IsErr(b) -> b
      [] IsInt(a) /\ IsInt(b) -> PyInt(a.s * b.s, BMul[a.m, b.m])
      [] OTHER -> MulFloat(ToFloat(a), ToFloat(b))

\* The quotient of two finite non-zero numbers: the dividend is taken sh bits
\* up (the divisor, when sh is negative), which gives the integer quotient
\* 56 bits or 57.
DivRound(s, qr, e) == Round(s, qr.q, e, qr.r # <<>>)
DivBy(a, b, sh) ==
    IF sh >= 0
    THEN DivRound(a.s * b.s, BDivMod[BShl[a.m, sh], b.m], a.e - b.e - sh)
    ELSE DivRound(a.s * b.s, BDivMod[a.m, BShl[b.m, -sh]], a.e - b.e - sh)
DivShift(a, b) == MantBits + 3 + BBitLen(b.m) - BBitLen(a.m)
\* a / b of floats, which raises for a zero b whatever a is.
DivFloat(a, b) ==
    CASE IsErr(a) -> a
      [] IsErr(b) -> b
      [] IsZero(b) -> ZeroDivisionError
      [] IsNaN(a) \/ IsNaN(b) -> NaN
      [] IsInf(a) /\ IsInf(b) -> NaN
      [] IsInf(a) -> Inf(a.s * b.s)
      [] IsInf(b) \/ IsZero(a) -> FZero(a.s * b.s)
      [] OTHER -> DivBy(a, b, DivShift(a, b))
\* a / b of ints: the double nearest to the exact quotient, which raises
\* beyond the largest double.
DivInt(a, b) ==
    IF IsZero(b) THEN ZeroDivisionError
    ELSE IF IsZero(a) THEN FZero(a.s * b.s)
    ELSE Finite(DivBy(a, b, DivShift(a, b)))
\* a / b; an int with a float is converted first.
Div(a, b) ==
    CASE IsErr(a) -> a
      [] IsErr(b) -> b
      [] IsInt(a) /\ IsInt(b) -> DivInt(a, b)
      [] OTHER -> DivFloat(ToFloat(a), ToFloat(b))

\* The sum of two finite non-zero floats, a.e >= b.e, less than AbsorbBits
\* apart: am is a's mantissa at b's exponent, and the sum is exact before
\* it is rounded.  x - x is +0.0.
AddAt(a, b, am) ==
    IF a.s = b.s THEN Round(a.s, BAdd[am, b.m], b.e, FALSE)
    ELSE IF BCmp[am, b.m] > 0 THEN Round(a.s, BSub[am, b.m], b.e, FALSE)
    ELSE IF BCmp[am, b.m] < 0 THEN Round(b.s, BSub[b.m, am], b.e, FALSE)
    ELSE FZero(1)
AddFin(a, b) ==
    IF a.e - b.e >= AbsorbBits THEN a ELSE AddAt(a, b, BShl[a.m, a.e - b.e])
\* a + b of floats
AddFloat(a, b) ==
    CASE IsErr(a) -> a
      [] IsErr(b) -> b
      [] IsNaN(a) \/ IsNaN(b) -> NaN
      [] IsInf(a) /\ IsInf(b) -> IF a.s = b.s THEN a ELSE NaN
      [] IsInf(a) -> a
      [] IsInf(b) -> b
      [] IsZero(a) /\ IsZero(b) -> IF a.s = b.s THEN a ELSE FZero(1)
      [] IsZero(a) -> b
      [] IsZero(b) -> a
      [] a.e >= b.e -> AddFin(a, b)
      [] OTHER -> AddFin(b, a)
\* a + b of ints, exact
AddInt(a, b) ==
    IF a.s = b.s THEN PyInt(a.s, BAdd[a.m, b.m])
    ELSE IF BCmp[a.m, b.m] >= 0 THEN PyInt(a.s, BSub[a.m, b.m])
    ELSE PyInt(b.s, BSub[b.m, a.m])
\* a + b; an int with a float is converted first.
Add(a, b) ==
    CASE IsErr(a) -> a
      [] IsErr(b) -> b
      [] IsInt(a) /\ IsInt(b) -> AddInt(a, b)
      [] OTHER -> AddFloat(ToFloat(a), ToFloat(b))
\* a - b, which is a + (-b) in ints and in floats.
Sub(a, b) ==
    CASE IsErr(a) -> a
      [] IsErr(b) -> b
      [] IsInt(a) /\ IsInt(b) -> AddInt(a, Neg(b))
      [] OTHER -> AddFloat(ToFloat(a), Neg(ToFloat(b)))

\* math.sqrt of a finite positive float: the mantissa is taken sh bits up,
\* to 119 or 120 bits and an even exponent: eight digits, the highest pair
\* Base^2 / 4 or more, and an integer root of 60 bits.
SqrtRound(sr, e) == Round(1, sr.s, e, sr.r # <<>>)
SqrtBy(a, sh) == SqrtRound(BSqrtRem[BShl[a.m, sh]], (a.e - sh) \div 2)
SqrtUp(a, sh) == SqrtBy(a, sh + ((a.e - sh) % 2))
\* math.sqrt of a float, which raises ValueError below zero; sqrt(-0.0) is
\* -0.0.
SqrtFloat(a) ==
    CASE IsErr(a) -> a
      [] IsNaN(a) -> NaN
      [] IsZero(a) -> a
      [] a.s < 0 -> ValueError
      [] IsInf(a) -> a
      [] OTHER -> SqrtUp(a, 8 * LimbBits - 1 - BBitLen(a.m))
\* math.sqrt, which converts an int first.
Sqrt(a) ==
    CASE IsErr(a) -> a
      [] OTHER -> SqrtFloat(ToFloat(a))

\* The exponent above the highest bit of a finite non-zero number.
TopBit(a) == BBitLen(a.m) + a.e
\* -1, 0 or 1 as |a| < |b|, |a| = |b| or |a| > |b|, for non-zero numbers;
\* an int and a float are compared exactly.
CmpMag(a, b) ==
    CASE IsInf(a) /\ IsInf(b) -> 0
      [] IsInf(a) -> 1
      [] IsInf(b) -> -1
      [] TopBit(a) # TopBit(b) -> IF TopBit(a) > TopBit(b) THEN 1 ELSE -1
      [] a.e >= b.e -> BCmp[BShl[a.m, a.e - b.e], b.m]
      [] OTHER -> BCmp[a.m, BShl[b.m, b.e - a.e]]
\* -1, 0 or 1 as the sign of a number; both zeros are 0
Sgn(a) == IF IsZero(a) THEN 0 ELSE a.s
\* -1, 0 or 1 as a < b, a = b or a > b, for numbers
Cmp(a, b) ==
    IF Sgn(a) # Sgn(b) THEN (IF Sgn(a) > Sgn(b) THEN 1 ELSE -1)
    ELSE IF Sgn(a) = 0 THEN 0
    ELSE Sgn(a) * CmpMag(a, b)
IsNum(a) == a.k \in {"fin", "inf", "int"}
\* The comparisons; one with a nan is false.
Geq(a, b) == IsNum(a) /\ IsNum(b) /\ Cmp(a, b) >= 0
Gt(a, b) == IsNum(a) /\ IsNum(b) /\ Cmp(a, b) > 0
Lt(a, b) == Gt(b, a)
Eq(a, b) == IsNum(a) /\ IsNum(b) /\ Cmp(a, b) = 0
\* max(a, b) is a unless b > a.
Max(a, b) ==
    CASE IsErr(a) -> a
      [] IsErr(b) -> b
      [] Gt(b, a) -> b
      [] OTHER -> a

\* The float of a decimal literal n / d, the double nearest to it.
Rat(n, d) == DivInt(Num(n), Num(d))

------------------------------------------------------------------------------
(* src/oct_test.py                                                           *)

\* A result is a tagged value: a UV pair, a direction triple, or the
\* exception raised.
UV(u, v) == [kind |-> "uv", val |-> <<u, v>>]
Dir(x, y, z) == [kind |-> "dir", val |-> <<x, y, z>>]
Raise(x) == [kind |-> x.k, val |-> <<>>]
Raised == Raise(ZeroDivisionError)
None == [kind |-> "none", val |-> <<>>]

\* line 11: the floor 1e-5
Eps == Rat(1, EpsDen)

\* x*x + y*y + z*z
SumSq(x, y, z) == Add(Add(Mul(x, x), Mul(y, y)), Mul(z, z))

\* Variant of length: the length floored at 1e-5 like denom, so that a zero
\* vector is divided by the floor instead of by zero.
length_floored(dirx, diry, dirz) == Max(Sqrt(SumSq(dirx, diry, dirz)), Eps)

\* line 4: length = math.sqrt(dirx*dirx + diry*diry + dirz*dirz)
length(dirx, diry, dirz) == Sqrt(SumSq(dirx, diry, dirz))

\* Variant of encode_remap: the axes are not remapped, (octX, octY, octZ) = (x, y, z).
encode_remap_noswap(dirx, diry, dirz, len) ==
    <<Div(dirx, len), Div(diry, len), Div(dirz, len)>>

\* lines 5-10: the components divided by length, remapped to
\* (octX, octY, octZ) = (dirx, dirz, diry).
encode_remap(dirx, diry, dirz, len) ==
    <<Div(dirx, len), Div(dirz, len), Div(diry, len)>>

\* lines 4-10: (octX, octY, octZ); lines 5-7 raise for a zero length.
encode_oct(dirx, diry, dirz) ==
    encode_remap(dirx, diry, dirz, length(dirx, diry, dirz))

\* line 11, the first argument of max: abs(octX) + abs(octY) + abs(octZ).
L1(o) == Add(Add(Abs(o[1]), Abs(o[2])), Abs(o[3]))
encode_l1(dirx, diry, dirz) == L1(encode_oct(dirx, diry, dirz))

\* line 11: denom = max(abs(octX) + abs(octY) + abs(octZ), 1e-5)
encode_denom(dirx, diry, dirz) == Max(encode_l1(dirx, diry, dirz), Eps)

\* lines 12-14: octX /= denom, octY /= denom, octZ /= denom
encode_scale(o, denom) ==
    <<Div(o[1], denom), Div(o[2], denom), Div(o[3], denom)>>

\* lines 4-14: the projected point (octX, octY, octZ) / denom.
encode_proj(dirx, diry, dirz) ==
    encode_scale(encode_oct(dirx, diry, dirz), encode_denom(dirx, diry, dirz))

\* lines 18-19: signDir = 1.0 if oct >= 0 else -1.0
signDir(c) == IF Geq(c, Zero) THEN One ELSE Neg(One)

\* lines 15-21: (uvx, uvy), folded when octZ < 0.
encode_fold(octX, octY, octZ) ==
    IF Lt(octZ, Zero)
    THEN <<Mul(Sub(One, Abs(octY)), signDir(octX)),
           Mul(Sub(One, Abs(octX)), signDir(octY))>>
    ELSE <<octX, octY>>

\* line 22: return (uvx * 0.5 + 0.5, uvy * 0.5 + 0.5)
encode_return(f) == UV(Add(Mul(f[1], Half), Half), Add(Mul(f[2], Half), Half))

\* lines 15-22 on the projected point p.
encode_uv(p) == encode_return(encode_fold(p[1], p[2], p[3]))

\* lines 3-22.  Dividing by a zero length raises at line 5.
encode(dirx, diry, dirz) ==
    IF IsErr(encode_oct(dirx, diry, dirz)[1]) THEN Raise(encode_oct(dirx, diry, dirz)[1])
    ELSE encode_uv(encode_proj(dirx, diry, dirz))

\* line 29: n_z = 1.0 - abs(f_x) - abs(f_y)
decode_nz(f_x, f_y) == Sub(Sub(One, Abs(f_x)), Abs(f_y))

\* Variant of decode_unfold: the fold is never undone.
decode_unfold_never(n_x, n_y, n_z) == <<n_x, n_y, n_z>>

\* Variant of decode_unfold: no temporaries, n_y is computed from the n_x
\* already overwritten.
decode_unfold_seq(n_x, n_y, n_z) ==
    IF Lt(n_z, Zero)
    THEN <<Mul(Sub(One, Abs(n_y)), signDir(n_x)),
           Mul(Sub(One, Abs(Mul(Sub(One, Abs(n_y)), signDir(n_x)))), signDir(n_y)),
           n_z>>
    ELSE <<n_x, n_y, n_z>>

\* lines 30-36: (n_x, n_y, n_z) with the fold undone when n_z < 0.
decode_unfold(n_x, n_y, n_z) ==
    IF Lt(n_z, Zero)
    THEN <<Mul(Sub(One, Abs(n_y)), signDir(n_x)),
           Mul(Sub(One, Abs(n_x)), signDir(n_y)),
           n_z>>
    ELSE <<n_x, n_y, n_z>>

\* lines 27-36 on (f_x, f_y).
decode_f(f_x, f_y) == decode_unfold(f_x, f_y, decode_nz(f_x, f_y))

\* lines 25-36: (n_x, n_y, n_z) before the axes are put back.
decode_n(u, v) == decode_f(Sub(Mul(u, Two), One), Sub(Mul(v, Two), One))

\* line 41: return (dirx/length, diry/length, dirz/length)
decode_return(dirx, diry, dirz, len) ==
    IF IsErr(Div(dirx, len)) THEN Raise(Div(dirx, len))
    ELSE Dir(Div(dirx, len), Div(diry, len), Div(dirz, len))

\* lines 37-41: dirx = n_x, diry = n_z, dirz = n_y, normalized.
decode_dir(n) == decode_return(n[1], n[3], n[2], length(n[1], n[3], n[2]))

\* lines 24-41.  Dividing by a zero length raises at line 41.
decode(u, v) == decode_dir(decode_n(u, v))

\* lines 43-52
samples ==
    << <<Num(1), Num(0), Num(0)>>, <<Num(-1), Num(0), Num(0)>>,
       <<Num(0), Num(1), Num(0)>>, <<Num(0), Num(-1), Num(0)>>,
       <<Num(0), Num(0), Num(1)>>, <<Num(0), Num(0), Num(-1)>>,
       <<Num(1), Num(1), Num(1)>>, <<Num(1), Num(-1), Rat(1, 2)>> >>

------------------------------------------------------------------------------
(* src/simulate_octa.py                                                      *)

face_colors ==
    [f \in {"+X", "-X", "+Y", "-Y", "+Z", "-Z"} |->
        CASE f = "+X" -> <<1, 0, 0>>
          [] f = "-X" -> <<0, 1, 0>>
          [] f = "+Y" -> <<0, 0, 1>>
          [] f = "-Y" -> <<1, 1, 0>>
          [] f = "+Z" -> <<1, 0, 1>>
          [] f = "-Z" -> <<0, 1, 1>>]

\* lines 16-19, 21-24, 26-29: the colour of the + or - face of an axis.
face(c, plus, minus) == IF Gt(c, Zero) THEN face_colors[plus] ELSE face_colors[minus]

\* Variant of sample_cubemap: strict comparisons, so a tie between the two
\* largest magnitudes falls through to the last branch.
sample_cubemap_strict(dirx, diry, dirz) ==
    IF Gt(Abs(dirx), Abs(diry)) /\ Gt(Abs(dirx), Abs(dirz))
    THEN face(dirx, "+X", "-X")
    ELSE IF Gt(Abs(diry), Abs(dirx)) /\ Gt(Abs(diry), Abs(dirz))
    THEN face(diry, "+Y", "-Y")
    ELSE face(dirz, "+Z", "-Z")

\* lines 13-29
sample_cubemap(dirx, diry, dirz) ==
    IF Geq(Abs(dirx), Abs(diry)) /\ Geq(Abs(dirx), Abs(dirz))
    THEN face(dirx, "+X", "-X")
    ELSE IF Geq(Abs(diry), Abs(dirx)) /\ Geq(Abs(diry), Abs(dirz))
    THEN face(diry, "+Y", "-Y")
    ELSE face(dirz, "+Z", "-Z")

\* lines 39-40: signDir = 1.0 if n >= 0 else -1.0
sim_signDir(c) == IF Geq(c, Zero) THEN One ELSE Neg(One)

\* The sign of a component that is exactly zero taken as -1.
sim_signDir_tie(c) == IF Gt(c, Zero) THEN One ELSE Neg(One)

\* Variant of sim_decode_unfold: the sign of a zero component is -1.
sim_decode_unfold_tie(n_x, n_y, n_z) ==
    IF Lt(n_z, Zero)
    THEN <<Mul(Sub(One, Abs(n_y)), sim_signDir_tie(n_x)),
           Mul(Sub(One, Abs(n_x)), sim_signDir_tie(n_y)),
           n_z>>
    ELSE <<n_x, n_y, n_z>>

\* lines 38-44: (n_x, n_y, n_z) with the fold undone when n_z < 0.
sim_decode_unfold(n_x, n_y, n_z) ==
    IF Lt(n_z, Zero)
    THEN <<Mul(Sub(One, Abs(n_y)), sim_signDir(n_x)),
           Mul(Sub(One, Abs(n_x)), sim_signDir(n_y)),
           n_z>>
    ELSE <<n_x, n_y, n_z>>

\* lines 35-44 on (f_x, f_y); line 37: n_z = 1.0 - abs(f_x) - abs(f_y)
sim_decode_f(f_x, f_y) ==
    sim_decode_unfold(f_x, f_y, Sub(Sub(One, Abs(f_x)), Abs(f_y)))

\* lines 33-44: (n_x, n_y, n_z) of the second copy of decode.
sim_decode_n(u, v) == sim_decode_f(Sub(Mul(u, Two), One), Sub(Mul(v, Two), One))

\* lines 48-49: length and the returned triple.
sim_decode_return(dirx, diry, dirz, len) ==
    IF IsErr(Div(dirx, len)) THEN Raise(Div(dirx, len))
    ELSE Dir(Div(dirx, len), Div(diry, len), Div(dirz, len))

\* lines 45-49: dirx = n_x, diry = n_z, dirz = n_y, normalized.
sim_decode_dir(n) ==
    sim_decode_return(n[1], n[3], n[2],
        Sqrt(Add(Add(Mul(n[1], n[1]), Mul(n[3], n[3])), Mul(n[2], n[2]))))

\* lines 32-49
sim_decode(u, v) == sim_decode_dir(sim_decode_n(u, v))

\* line 51
sim_samples ==
    << <<Rat(5, 10), Rat(5, 10)>>, <<Rat(1, 10), Rat(5, 10)>>,
       <<Rat(9, 10), Rat(5, 10)>>, <<Rat(5, 10), Rat(1, 10)>>,
       <<Rat(5, 10), Rat(9, 10)>>, <<Rat(1, 10), Rat(1, 10)>>,
       <<Rat(9, 10), Rat(9, 10)>>, <<Rat(1, 10), Rat(9, 10)>>,
       <<Rat(9, 10), Rat(1, 10)>> >>

------------------------------------------------------------------------------
(* The programs as a state machine.  A run starts either from a direction    *)
(* (the loop of oct_test.py: encode, then decode) or from a UV point (the    *)
(* loop of simulate_octa.py: decode, then sample_cubemap).  Both copies of   *)
(* decode are applied to the UV of every run; a run from a UV point goes on  *)
(* to classify the decoded direction and to encode it again, so that the     *)
(* codec's two functions are composed in both orders.                        *)

Range(s) == {s[i] : i \in DOMAIN s}

\* The largest double whose square is finite, (2^53 - 1) 2^459.
SqrtMaxFloat == Sub(Flt(1, 512), Flt(1, 459))

\* Finite non-zero directions at the ends of the range of a double: squares
\* that underflow to zero (2^-600, 2^-538), that are the smallest subnormal
\* (2^-537) or are rounded to a multiple of it (1.5 * 2^-537), squares that
\* overflow (2^600, 2^512), sums of finite squares that overflow
\* (1.5 * 2^511 twice) or are rounded to inf (the largest finite square and
\* the square of 1.75 * 2^485), the largest magnitudes that do not, and
\* components too small to change the L1 norm of the others.
ExtremeDirs ==
    { <<Flt(1, -600), FZero(1), FZero(1)>>,
      <<Flt(1, -538), Flt(1, -538), FZero(1)>>,
      <<Flt(1, -537), FZero(1), FZero(1)>>,
      <<Flt(3, -538), Flt(-1, -537), FZero(1)>>,
      <<Flt(1, 600), FZero(1), FZero(1)>>,
      <<FZero(1), Flt(-1, 600), FZero(1)>>,
      <<Flt(1, 600), One, FZero(1)>>,
      <<Flt(1, 512), FZero(1), FZero(1)>>,
      <<Flt(3, 510), Flt(3, 510), FZero(1)>>,
      <<Flt(3, 510), FZero(1), FZero(1)>>,
      <<Flt(1, 511), Flt(-1, 511), Flt(1, 511)>>,
      <<SqrtMaxFloat, Flt(7, 483), FZero(1)>>,
      <<FZero(1), Neg(SqrtMaxFloat), Flt(7, 483)>>,
      <<SqrtMaxFloat, FZero(1), FZero(1)>>,
      <<One, Flt(-1, -600), FZero(1)>>,
      <<One, Flt(-1, -55), One>> }

\* The int 2^n
Pow2Int(n) == PyInt(1, BShl[<<1>>, n])

\* Directions of large ints: the sum of the squares is the exact int, which
\* math.sqrt rounds once (the first two, whose float squares are rounded
\* each), or is too large for a float (2^600, whose square is 2^1200, and
\* 2^1024 next to a float), or is not (2^511).
IntDirs ==
    { <<Num(1082329803), Num(406946072), Num(939841569)>>,
      <<Num(679050358), Num(-1613040090), Num(-1874922557)>>,
      <<Pow2Int(600), Zero, Zero>>,
      <<Pow2Int(1024), One, Zero>>,
      <<Pow2Int(511), Zero, Num(-1)>> }

\* The same directions as floats, where each square is rounded.
FloatDirs ==
    { <<Flt(1082329803, 0), Flt(406946072, 0), Flt(939841569, 0)>>,
      <<Flt(679050358, 0), Flt(-1613040090, 0), Flt(-1874922557, 0)>> }

\* The directions of ints of magnitude MaxC or less, as ints (like lines
\* 44-50 of oct_test.py) and as floats.
Dirs ==
    {<<Num(x), Num(y), Num(z)>> : x \in -MaxC..MaxC, y \in -MaxC..MaxC, z \in -MaxC..MaxC}
        \cup {<<Flt(x, 0), Flt(y, 0), Flt(z, 0)>> : x \in -MaxC..MaxC, y \in -MaxC..MaxC, z \in -MaxC..MaxC}
        \cup Range(samples) \cup ExtremeDirs \cup IntDirs \cup FloatDirs

GridDen == Pow2(GridBits)

\* decode does not validate its input: the grid covers the unit square and
\* one step beyond each of its edges.  Its points are exact doubles.
Grid == {Rat(i, GridDen) : i \in -1..(GridDen + 1)}

\* UV points far outside the square, where the squares of decode overflow
\* (2^600), where u * 2.0 itself does (2^1023) and where n_z is rounded to
\* -inf (half the largest double, with 2^969).
ExtremeUVs ==
    { <<Flt(1, 600), Half>>, <<Half, Flt(-1, 600)>>, <<Flt(1, 1023), Half>>,
      <<Sub(Flt(1, 1023), Flt(1, 970)), Flt(1, 969)>> }

\* UV points of the square that are not on the grid: u * 2.0 - 1.0 is
\* rounded, which decides the branch n_z < 0 (3 * 2^-56 with 0.5 - 2^-54).
RoundedUVs ==
    { <<Flt(3, -56), Sub(Half, Flt(1, -54))>>,
      <<Sub(One, Flt(1, -53)), Flt(1, -60)>>,
      <<Rat(1, 3), Rat(2, 3)>>,
      <<Rat(7, 10), Rat(3, 10)>> }

\* The least u for which u * 2.0 - 1.0 is not rounded to -1.0: 2^-54, half
\* the distance from 1.0 to the double below it, where u * 2.0 - 1.0 is that
\* double, -(1 - 2^-53).  At 2^-55 it is half way and rounded to the even
\* -1.0.
Edge == Flt(1, -1 - MantBits)
\* The largest double below 1.0
BelowOne == Sub(One, Flt(1, -MantBits))

\* UV points of the open square next to its edges u = 0 and v = 0, at Edge
\* and closer (2^-55, the double above it, 2^-60, 2^-61, the smallest
\* subnormal), next to the edges u = 1 and v = 1, and next to the fold line.
EdgeUVs ==
    { <<Flt(1, -53), Flt(1, -60)>>,
      <<Flt(1, -60), Rat(1, 4)>>,
      <<Flt(1, -61), Rat(1, 4)>>,
      <<Flt(1, -55), Rat(1, 4)>>,
      <<Add(Flt(1, -55), Flt(1, -107)), Rat(3, 4)>>,
      <<Rat(3, 4), Flt(1, -55)>>,
      <<Flt(1, EMin), Flt(1, EMin)>>,
      <<Flt(1, -55), Flt(1, -55)>>,
      <<Edge, Rat(1, 4)>>,
      <<Rat(3, 4), Edge>>,
      <<Edge, Edge>>,
      <<Edge, BelowOne>>,
      <<BelowOne, Edge>>,
      <<BelowOne, BelowOne>>,
      <<BelowOne, Rat(1, 4)>>,
      <<Sub(Edge, Flt(1, -107)), Rat(1, 4)>>,
      <<Rat(1, 4), Sub(Rat(1, 4), Flt(1, -55))>>,
      <<Rat(1, 4), Add(Rat(3, 4), Flt(1, -53))>> }

\* UV points given as ints: corners of the square, and a u too large for
\* the float of u * 2.0.
IntUVs ==
    { <<Zero, Zero>>, <<Num(1), Zero>>, <<Zero, Num(1)>>, <<Num(1), Num(1)>>,
      <<Num(1), Half>>, <<Pow2Int(1024), Half>> }

UVs ==
    (Grid \X Grid) \cup Range(sim_samples) \cup ExtremeUVs \cup RoundedUVs
        \cup EdgeUVs \cup IntUVs

Init ==
    /\ \/ /\ dir \in {Dir(d[1], d[2], d[3]) : d \in Dirs}
          /\ uv = None
          /\ pc = "encode"
       \/ /\ dir = None
          /\ uv \in {UV(p[1], p[2]) : p \in UVs}
          /\ pc = "decode"
    /\ dec = None
    /\ sdec = None
    /\ col = None
    /\ uv2 = None

\* oct_test.py line 55: uv = encode(*dir)
Encode ==
    /\ pc = "encode"
    /\ uv' = encode(dir.val[1], dir.val[2], dir.val[3])
    /\ pc' = IF uv'.kind = "uv" THEN "decode" ELSE "raised"
    /\ UNCHANGED <<dir, dec, sdec, col, uv2>>

\* oct_test.py line 56: dec = decode(*uv)
Decode ==
    /\ pc = "decode"
    /\ dec' = decode(uv.val[1], uv.val[2])
    /\ pc' = IF dec'.kind = "dir" THEN "sim_decode" ELSE "raised"
    /\ UNCHANGED <<dir, uv, sdec, col, uv2>>

\* simulate_octa.py line 54: d = decode(*uv)
SimDecode ==
    /\ pc = "sim_decode"
    /\ sdec' = sim_decode(uv.val[1], uv.val[2])
    /\ pc' = IF sdec'.kind # "dir" THEN "raised"
             ELSE IF dir = None THEN "classify" ELSE "done"
    /\ UNCHANGED <<dir, uv, dec, col, uv2>>

\* simulate_octa.py line 55: col = sample_cubemap(*d)
Classify ==
    /\ pc = "classify"
    /\ col' = sample_cubemap(sdec.val[1], sdec.val[2], sdec.val[3])
    /\ pc' = "reencode"
    /\ UNCHANGED <<dir, uv, dec, sdec, uv2>>

\* encode applied to the direction decode returned.
Reencode ==
    /\ pc = "reencode"
    /\ uv2' = encode(dec.val[1], dec.val[2], dec.val[3])
    /\ pc' = IF uv2'.kind = "uv" THEN "done" ELSE "raised"
    /\ UNCHANGED <<dir, uv, dec, sdec, col>>

Next == Encode \/ Decode \/ SimDecode \/ Classify \/ Reencode

Spec == Init /\ [][Next]_vars

------------------------------------------------------------------------------
------------------------------------------------------------------------------
(* Properties                                                                *)

IsDir(x) == x.kind = "dir"
IsUV(x) == x.kind = "uv"
NonZeroDir(x) == IsDir(x) /\ \E i \in 1..3 : ~IsZero(x.val[i])
\* (0, 0, 0) and (0.0, 0.0, 0.0)
ZeroDir == Dir(Zero, Zero, Zero)
ZeroDirs == {ZeroDir, Dir(FZero(1), FZero(1), FZero(1))}
\* A direction of ints, and the same direction of floats.
IntDir(x, y, z) == Dir(Num(x), Num(y), Num(z))
FloatDir(x, y, z) == Dir(Flt(x, 0), Flt(y, 0), Flt(z, 0))
Axis(x, y, z) == {IntDir(x, y, z), FloatDir(x, y, z)}
InSquare(x) ==
    /\ IsUV(x)
    /\ Geq(x.val[1], Zero) /\ Geq(One, x.val[1])
    /\ Geq(x.val[2], Zero) /\ Geq(One, x.val[2])
\* Edge <= u < 1 and Edge <= v < 1
Inner(x) ==
    /\ IsUV(x)
    /\ Geq(x.val[1], Edge) /\ Gt(One, x.val[1])
    /\ Geq(x.val[2], Edge) /\ Gt(One, x.val[2])
\* the squared length of a triple
Norm2(t) == Add(Add(Mul(t[1], t[1]), Mul(t[2], t[2])), Mul(t[3], t[3]))
\* The floating-point tolerance of the round trip, 1e-6.
Tol == Rat(1, 1000000)
\* |a - b| <= 1e-6
Close(a, b) == Geq(Tol, Abs(Sub(a, b)))
CloseUV(a, b) ==
    /\ IsUV(a) /\ IsUV(b)
    /\ Close(a.val[1], b.val[1]) /\ Close(a.val[2], b.val[2])
CloseDir(a, b) ==
    /\ IsDir(a) /\ IsDir(b)
    /\ \A i \in 1..3 : Close(a.val[i], b.val[i])
\* A component of largest magnitude of a triple.
Top(t) == CHOOSE i \in 1..3 : \A j \in 1..3 : Geq(Abs(t[i]), Abs(t[j]))
\* The triple times the power of two that takes its largest component into
\* [1, 2), where no square overflows and none that matters underflows.
ScaledBy(t, c) == <<Mul(t[1], c), Mul(t[2], c), Mul(t[3], c)>>
ScaleExp(a) == IF IsInt(a) THEN 1 - BBitLen(a.m) ELSE 1 - MantBits - a.e
Scaled(t) == ScaledBy(t, Flt(1, ScaleExp(t[Top(t)])))
\* d / |d| of a non-zero finite triple, up to rounding.
UnitOf(s, len) == Dir(Div(s[1], len), Div(s[2], len), Div(s[3], len))
UnitScaled(s) == UnitOf(s, Sqrt(Norm2(s)))
Unit(t) == UnitScaled(Scaled(t))

Encoded == pc # "encode"
FromDir == IsDir(dir)
FromUV == dir = None
Decoded == pc \in {"sim_decode", "classify", "reencode", "done"}
SimDecoded == pc \in {"classify", "reencode", "done"}
Classified == FromUV /\ pc \in {"reencode", "done"}
Reencoded == FromUV /\ pc = "done"

\* C1: once a non-zero direction d has been encoded, the run goes on to decode
\* and decode(encode(d)) is d/|d| up to the tolerance, in every octant, on the
\* axes and on the fold branch.
C1_RoundTrip ==
    (NonZeroDir(dir) /\ Encoded /\ pc # "decode") =>
        /\ Decoded
        /\ CloseDir(dec, Unit(dir.val))

\* C2: for every non-zero finite direction encode returns (u, v) with
\* 0 <= u <= 1 and 0 <= v <= 1, folded or not.
C2_Range == (NonZeroDir(dir) /\ Encoded) => InSquare(uv)

\* C3 as claimed: for every (u, v) of the closed unit square,
\* encode(decode(u, v)) = (u, v), up to the tolerance.
C3_BijectionOnClosedSquare ==
    (InSquare(uv) /\ Reencoded) => CloseUV(uv2, uv)

\* C3 as amended: for every (u, v) of the closed unit square,
\* encode(decode(u, v)) is a point of the square that decodes to the same
\* direction, up to the tolerance; and it is (u, v), up to the tolerance,
\* when 2^-54 <= u < 1 and 2^-54 <= v < 1.
C3_InnerLeftInverse ==
    (InSquare(uv) /\ Reencoded) =>
        /\ InSquare(uv2)
        /\ CloseDir(decode(uv2.val[1], uv2.val[2]), dec)
        /\ Inner(uv) => CloseUV(uv2, uv)

\* The point (2^-54, 2^-54) next to the corner (0, 0), where decode and
\* encode both fold and 2u - 1 is -(1 - 2^-53), has been decoded and
\* re-encoded to itself.
C3_Witness ==
    /\ Reencoded
    /\ uv = UV(Edge, Edge)
    /\ Inner(uv)
    /\ Lt(decode_n(uv.val[1], uv.val[2])[3], Zero)
    /\ decode_n(uv.val[1], uv.val[2])[1] = Neg(Flt(1, -MantBits))
    /\ CloseUV(uv2, uv)

\* C4: for every direction with y < 0 the encoded UV satisfies
\* |u - 0.5| + |v - 0.5| > 0.5, decode of it takes the fold branch (n_z < 0)
\* and the decoded y is strictly negative.
C4_FoldSymmetry ==
    (FromDir /\ Lt(dir.val[2], Zero) /\ Decoded) =>
        /\ Gt(Add(Abs(Sub(uv.val[1], Half)), Abs(Sub(uv.val[2], Half))), Half)
        /\ Lt(decode_n(uv.val[1], uv.val[2])[3], Zero)
        /\ Lt(dec.val[2], Zero)

\* (n_x, n_y, n_z) is not the zero vector, |n_x| + |n_y| + |n_z| is 1 up to
\* the tolerance, and its length is not zero.
NonDegenerate(n) ==
    /\ \E i \in 1..3 : ~IsZero(n[i])
    /\ Close(L1(n), One)
    /\ Gt(length(n[1], n[3], n[2]), Zero)

\* C5: for every (u, v) of the closed unit square decode does not divide by
\* zero: the vector built before normalization is not zero, with
\* |n_x| + |n_y| + |n_z| = 1, and the returned direction has unit length.
C5_DecodeNonDegenerate ==
    (InSquare(uv) /\ pc # "decode") =>
        /\ Decoded
        /\ IsDir(dec)
        /\ NonDegenerate(decode_n(uv.val[1], uv.val[2]))
        /\ Close(Norm2(dec.val), One)

\* The corner (0, 0) of the square has been decoded, through the fold, to the
\* negative polar axis.
C5_Witness ==
    /\ Decoded
    /\ uv = UV(FZero(1), FZero(1))
    /\ Eq(decode_n(uv.val[1], uv.val[2])[3], Num(-1))
    /\ IsZero(dec.val[1]) /\ Eq(dec.val[2], Num(-1)) /\ IsZero(dec.val[3])

\* C6 as claimed: encode(0, 0, 0) signals a DegenerateInputError and produces
\* no UV.
C6_DegenerateInputError ==
    (dir \in ZeroDirs /\ Encoded) =>
        /\ uv.kind = "DegenerateInputError"
        /\ pc = "raised"

\* C6 as amended: encode(0, 0, 0) raises ZeroDivisionError (the division by
\* the zero length); no UV is produced and nothing is decoded.
C6_ZeroDivisionError ==
    (dir \in ZeroDirs /\ Encoded) =>
        /\ uv = Raised
        /\ ~IsUV(uv)
        /\ pc = "raised"
        /\ dec = None

\* encode has been called on the zero vector.
C6_Witness == dir = ZeroDir /\ pc = "raised" /\ uv.kind = "ZeroDivisionError"

\* C7: encode(0,1,0) = (0.5, 0.5), encode(1,0,0) = (1, 0.5),
\* encode(0,0,1) = (0.5, 1), decode(0.5, 0.5) = (0,1,0) and
\* decode(1, 0.5) = (1,0,0), as the same doubles.
C7_AxisFixtures ==
    /\ (dir \in Axis(0, 1, 0) /\ Encoded) => uv = UV(Half, Half)
    /\ (dir \in Axis(1, 0, 0) /\ Encoded) => uv = UV(One, Half)
    /\ (dir \in Axis(0, 0, 1) /\ Encoded) => uv = UV(Half, One)
    /\ (uv = UV(Half, Half) /\ pc # "decode") => dec = FloatDir(0, 1, 0)
    /\ (uv \in {UV(One, Half), UV(Num(1), Half)} /\ pc # "decode") =>
          dec = FloatDir(1, 0, 0)

\* The +Z axis (0, 0, 1) has been encoded to the midpoint of the edge v = 1
\* and decoded back.
C7_Witness ==
    /\ pc = "done"
    /\ dir = IntDir(0, 0, 1)
    /\ uv = UV(Half, One)
    /\ dec = FloatDir(0, 0, 1)

\* l1 is at least 1 > 1e-5 and is denom, and the projected point p has
\* |px| + |py| <= 1 and |pz| = 1 - |px| - |py|, up to the tolerance.
OnOctahedron(l1, denom, p) ==
    /\ Geq(Add(l1, Tol), One)
    /\ Gt(One, Eps)
    /\ denom = l1
    /\ Geq(Add(One, Tol), Add(Abs(p[1]), Abs(p[2])))
    /\ Close(Abs(p[3]), Sub(Sub(One, Abs(p[1])), Abs(p[2])))

\* C8: for every non-zero input that encode normalizes, the L1 norm of the
\* unit vector is at least 1 > 1e-5, so denom is that norm (the floor does not
\* bind), and the projected point has |px| + |py| <= 1 and
\* |pz| = 1 - |px| - |py|.
C8_FloorNeverBinds ==
    (NonZeroDir(dir) /\ Encoded /\ IsUV(uv)) =>
        OnOctahedron(encode_l1(dir.val[1], dir.val[2], dir.val[3]),
                     encode_denom(dir.val[1], dir.val[2], dir.val[3]),
                     encode_proj(dir.val[1], dir.val[2], dir.val[3]))

\* f_x, f_y and the two copies' vectors n and sn: both fold exactly when
\* 1 - |f_x| - |f_y| < 0, leave (f_x, f_y) alone otherwise, and take the
\* sign of a zero f_x as +1.
SameBranch(f_x, f_y, n, sn, fold) ==
    /\ sn = n
    /\ fold <=> (Lt(n[3], Zero) /\ Lt(sn[3], Zero))
    /\ ~fold => (n = <<f_x, f_y, n[3]>> /\ sn = <<f_x, f_y, sn[3]>>)
    /\ (fold /\ IsZero(f_x)) =>
          /\ sn[1] = Sub(One, Abs(f_y))
          /\ n[1] = Sub(One, Abs(f_y))
SameBranchOf(f_x, f_y, n, sn) ==
    SameBranch(f_x, f_y, n, sn, Lt(Sub(Sub(One, Abs(f_x)), Abs(f_y)), Zero))

\* C9: on every (u, v), in the square or outside it, the two copies of decode
\* build the same vector, fold on the same condition
\* 1 - |2u-1| - |2v-1| < 0, and return the same direction.
C9_DecodeCopiesAgree ==
    (IsUV(uv) /\ SimDecoded) =>
        /\ sdec = dec
        /\ SameBranchOf(Sub(Mul(uv.val[1], Two), One), Sub(Mul(uv.val[2], Two), One),
                        decode_n(uv.val[1], uv.val[2]), sim_decode_n(uv.val[1], uv.val[2]))

\* A point above the square with u = 0.5 (f_x exactly zero, folded) has been
\* decoded by both copies.
C9_Witness ==
    /\ SimDecoded
    /\ uv = UV(Half, Rat(GridDen + 1, GridDen))
    /\ sdec = dec
    /\ Lt(sdec.val[1], Zero)

\* The first axis whose magnitude is the largest of the triple.
Dominant(t) ==
    CHOOSE i \in 1..3 :
        /\ \A j \in 1..3 : Geq(Abs(t[i]), Abs(t[j]))
        /\ \A j \in 1..3 : j < i => Lt(Abs(t[j]), Abs(t[i]))

FaceName(plus, i) ==
    CASE plus /\ i = 1 -> "+X" [] ~plus /\ i = 1 -> "-X"
      [] plus /\ i = 2 -> "+Y" [] ~plus /\ i = 2 -> "-Y"
      [] plus /\ i = 3 -> "+Z" [] ~plus /\ i = 3 -> "-Z"
FaceOf(t, i) == FaceName(Gt(t[i], Zero), i)

\* The colour c is that of the face of the axis i of t, whose component is
\* not zero, and is a '-' colour exactly for a negative component.
FaceOfAxis(t, i, c) ==
    /\ ~IsZero(t[i])
    /\ c = face_colors[FaceOf(t, i)]
    /\ (c \in {face_colors["-X"], face_colors["-Y"], face_colors["-Z"]}) <=> Lt(t[i], Zero)

\* C10: for every (u, v) of the unit square, sample_cubemap of the decoded
\* direction is the colour of the face of the dominant axis (ties X, then Y,
\* then Z) with the sign of that component, which is never zero, so that a
\* '-' face is the face of a strictly negative component.
C10_FaceOfDominantAxis ==
    (InSquare(uv) /\ Classified) => FaceOfAxis(sdec.val, Dominant(sdec.val), col)

\* (0.75, 0.5) decodes to a direction whose x and y magnitudes tie for the
\* largest; it has been classified +X.
C10_Witness ==
    /\ Classified
    /\ uv = UV(Rat(3, 4), Half)
    /\ sdec.val[1] = sdec.val[2]
    /\ col = face_colors["+X"]

====
